---- MODULE Spec2Model ----
(***************************************************************************)
(* A model of illia-fz/ai-trading-bot: the indicator functions of          *)
(* analysis_utils.py, the trade-level calculators and decision adapters of *)
(* ai_trading_bot.py, ai_trading_bot_enhanced.py and model_utils.py, the   *)
(* Telegram notifier of telegram_utils.py and the main routine of          *)
(* ai_trading_bot.py.                                                      *)
(*                                                                         *)
(* Python floats are modelled as exact rationals <<numerator, denominator>>*)
(* with a positive denominator; rounding of IEEE doubles is not modelled.  *)
(***************************************************************************)
EXTENDS Integers, Sequences, FiniteSets

VARIABLES
    prices,       \* IndicatorEngine: the price series handed to an indicator
    window,       \* IndicatorEngine: the moving-average window
    period,       \* IndicatorEngine: the RSI period
    indicator,    \* IndicatorEngine: the last indicator call and its result
    action,       \* LevelCalculator: the decision label
    price,        \* LevelCalculator: the reference price
    tp_pct,       \* LevelCalculator: the take-profit fraction
    sl_pct,       \* LevelCalculator: the stop-loss fraction
    levels,       \* LevelCalculator: the result of each implementation
    env,          \* DecisionAdapter: the process environment (os.environ)
    call,         \* DecisionAdapter: the last adapter call and its arguments
    upstream,     \* DecisionAdapter: what the scoring endpoint did with the request
    decision,     \* DecisionAdapter: the outcome of the last adapter call
    pc,           \* main: the statement main is about to execute
    symbols,      \* main: the parsed list of instrument ids
    market_data,  \* main: the price mapping returned by fetch_market_data
    model_action, \* main: the value returned by analyze_with_model
    idx,          \* main: the position of the current loop in symbols (1-based)
    log,          \* main: what has been logged and printed, in order
    exc,          \* main: the exception that ended main, "-" when none
    emitted       \* enhanced main: the per-instrument results printed so far

indVars == <<prices, window, period, indicator>>
lvlVars == <<action, price, tp_pct, sl_pct, levels>>
adpVars == <<env, call, upstream, decision>>
botVars == <<pc, symbols, market_data, model_action, idx, log, exc>>
enhVars == <<emitted>>
vars == <<indVars, lvlVars, adpVars, botVars, enhVars>>

-----------------------------------------------------------------------------
(* Bounds of the model *)

MaxLen == 4        \* longest price series
MaxPrice == 2      \* prices of a series are 0..MaxPrice
MaxWindow == 3     \* windows are 1..MaxWindow
MaxPeriod == 3     \* periods are 1..MaxPeriod
MaxLevelPrice == 3 \* reference prices of a level calculation are -1..MaxLevelPrice
MaxPct == 3        \* take-profit and stop-loss fractions are 0/100..MaxPct/100
MaxSymbols == 2    \* longest list of instrument ids given to main
MaxHist == 2       \* longest historical series a market_chart response carries

-----------------------------------------------------------------------------
(* Exact rational arithmetic standing for Python's float arithmetic *)

Rat(n, d) == <<n, d>>
FromInt(n) == <<n, 1>>
RAdd(a, b) == <<a[1] * b[2] + b[1] * a[2], a[2] * b[2]>>
RSub(a, b) == <<a[1] * b[2] - b[1] * a[2], a[2] * b[2]>>
RMul(a, b) == <<a[1] * b[1], a[2] * b[2]>>
\* a / b for b # 0, keeping the denominator positive
RDiv(a, b) == IF b[1] > 0 THEN <<a[1] * b[2], a[2] * b[1]>>
                          ELSE <<(0 - a[1]) * b[2], a[2] * (0 - b[1])>>
REq(a, b) == a[1] * b[2] = b[1] * a[2]
RLt(a, b) == a[1] * b[2] < b[1] * a[2]
RLe(a, b) == a[1] * b[2] <= b[1] * a[2]
IsZero(a) == a[1] = 0

\* The value of a call: a number, Python's None, or a raised exception.
Num(r) == [kind |-> "number", val |-> r, exc |-> "-"]
None == [kind |-> "None", val |-> <<0, 1>>, exc |-> "-"]
Raise(e) == [kind |-> "raise", val |-> <<0, 1>>, exc |-> e]

-----------------------------------------------------------------------------
(* Python sequence primitives, 0-based with negative indices *)

\* seq[i] of Python: a negative index counts from the end.
PyIndex(seq, i) == IF i < 0 THEN seq[Len(seq) + i + 1] ELSE seq[i + 1]

\* seq[-n:] of Python for n > 0: the start is clamped to 0.
PyTail(seq, n) ==
    LET start == IF Len(seq) - n < 0 THEN 0 ELSE Len(seq) - n
    IN  SubSeq(seq, start + 1, Len(seq))

RECURSIVE sum(_)
sum(seq) == IF seq = <<>> THEN 0 ELSE seq[1] + sum(Tail(seq))

-----------------------------------------------------------------------------
(* analysis_utils.py *)

calculate_moving_average_divwindow(ps, w) ==
    IF ps = <<>> THEN None
    ELSE IF Len(ps) < w THEN Num(RDiv(FromInt(sum(ps)), FromInt(w)))
    ELSE Num(RDiv(FromInt(sum(PyTail(ps, w))), FromInt(w)))

calculate_moving_average(ps, w) ==
    IF ps = <<>> THEN None
    ELSE IF Len(ps) < w THEN Num(RDiv(FromInt(sum(ps)), FromInt(Len(ps))))
    ELSE Num(RDiv(FromInt(sum(PyTail(ps, w))), FromInt(w)))

\* The loop of calculate_rsi over i in range(from, 0); acc is <<gains, losses>>.
RECURSIVE rsi_loop(_, _, _)
rsi_loop(ps, i, acc) ==
    IF i >= 0 THEN acc
    ELSE LET change == PyIndex(ps, i) - PyIndex(ps, i - 1)
         IN  IF change > 0
             THEN rsi_loop(ps, i + 1, <<acc[1] + change, acc[2]>>)
             ELSE rsi_loop(ps, i + 1, <<acc[1], acc[2] - change>>)

\* The same loop with the sign of the loss update wrong (losses += change).
RECURSIVE rsi_loop_signflip(_, _, _)
rsi_loop_signflip(ps, i, acc) ==
    IF i >= 0 THEN acc
    ELSE LET change == PyIndex(ps, i) - PyIndex(ps, i - 1)
         IN  IF change > 0
             THEN rsi_loop_signflip(ps, i + 1, <<acc[1] + change, acc[2]>>)
             ELSE rsi_loop_signflip(ps, i + 1, <<acc[1], acc[2] + change>>)

RsiScale == 100
EpsilonDen == 1000
Epsilon == Rat(1, EpsilonDen)

\* Lines 40-44: the index computed from the accumulated gains and losses.
rsi_from(gains, losses, per) ==
    LET average_gain == RDiv(FromInt(gains), FromInt(per))
        average_loss == IF losses # 0 THEN RDiv(FromInt(losses), FromInt(per))
                                      ELSE Epsilon
        rs == RDiv(average_gain, average_loss)
        denom == RAdd(FromInt(1), rs)
    IN  IF IsZero(denom) THEN Raise("ZeroDivisionError")
        ELSE Num(RSub(FromInt(RsiScale), RDiv(FromInt(RsiScale), denom)))

calculate_rsi_signflip(ps, per) ==
    IF Len(ps) < per + 1 THEN None
    ELSE LET acc == rsi_loop_signflip(ps, 0 - per, <<0, 0>>)
         IN  rsi_from(acc[1], acc[2], per)

\* The loop started one delta late: range(-period + 1, 0).
calculate_rsi_late(ps, per) ==
    IF Len(ps) < per + 1 THEN None
    ELSE LET acc == rsi_loop(ps, 1 - per, <<0, 0>>)
         IN  rsi_from(acc[1], acc[2], per)

calculate_rsi(ps, per) ==
    IF Len(ps) < per + 1 THEN None
    ELSE LET acc == rsi_loop(ps, 0 - per, <<0, 0>>)
         IN  rsi_from(acc[1], acc[2], per)

-----------------------------------------------------------------------------
(* ai_trading_bot_enhanced.py: the moving average of the enhanced script *)

enhanced_calculate_moving_average(ps) ==
    IF ps # <<>> THEN Num(RDiv(FromInt(sum(ps)), FromInt(Len(ps))))
                 ELSE Num(FromInt(0))

-----------------------------------------------------------------------------
(* The trade-level calculators *)

\* ai_trading_bot.py, argument order (price, action, tp_pct, sl_pct)
calculate_trade_levels_swapped(p, act, tp, sl) ==
    IF act = "buy"
    THEN <<RMul(p, RSub(FromInt(1), tp)), RMul(p, RAdd(FromInt(1), sl))>>
    ELSE IF act = "sell"
    THEN <<RMul(p, RAdd(FromInt(1), tp)), RMul(p, RSub(FromInt(1), sl))>>
    ELSE <<p, p>>

calculate_trade_levels(p, act, tp, sl) ==
    IF act = "buy"
    THEN <<RMul(p, RAdd(FromInt(1), tp)), RMul(p, RSub(FromInt(1), sl))>>
    ELSE IF act = "sell"
    THEN <<RMul(p, RSub(FromInt(1), tp)), RMul(p, RAdd(FromInt(1), sl))>>
    ELSE <<p, p>>

\* ai_trading_bot_enhanced.py, argument order (action, price, tp_pct, sl_pct)
enhanced_calculate_trade_levels(act, p, take_profit_pct, stop_loss_pct) ==
    IF act = "buy"
    THEN <<RMul(p, RAdd(FromInt(1), take_profit_pct)),
           RMul(p, RSub(FromInt(1), stop_loss_pct))>>
    ELSE IF act = "sell"
    THEN <<RMul(p, RSub(FromInt(1), take_profit_pct)),
           RMul(p, RAdd(FromInt(1), stop_loss_pct))>>
    ELSE <<p, p>>

-----------------------------------------------------------------------------
(* JSON values and the process environment seen by the decision adapters *)

PyNone == "<None>"
Absent == "<absent>"
\* Python truthiness of an optional string: None and "" are falsy.
Truthy(x) == x \notin {PyNone, ""}

\* os.getenv(name): None when the variable is not set.
getenv(e, name) == IF e[name] = "<unset>" THEN PyNone ELSE e[name]

\* A JSON value found under a decision field: null, a string (in label), or an
\* object with an optional label and an optional score (in hundredths).
JsonNull == [type |-> "null", label |-> Absent, has_score |-> FALSE, score |-> 0]
JsonString(l) == [type |-> "string", label |-> l, has_score |-> FALSE, score |-> 0]
JsonDecision(l, has, sc) == [type |-> "object", label |-> l, has_score |-> has, score |-> sc]

\* {"label": "hold", "score": 0.0} and the plain string "hold"
HoldDecision == JsonDecision("hold", TRUE, 0)
HoldLabel == JsonString("hold")

\* The outcome of an adapter call: a returned value or a propagated exception,
\* with the number of HTTP requests it made.
Return(v, n) == [outcome |-> "return", value |-> v, exc |-> "-", requests |-> n]
Propagate(e, n) == [outcome |-> "raise", value |-> JsonNull, exc |-> e, requests |-> n]
NoDecision == [outcome |-> "idle", value |-> JsonNull, exc |-> "-", requests |-> 0]

\* The exception raised by requests.post(...), raise_for_status() or
\* response.json() for an upstream behaviour, "-" when all three succeed.
http_exception(up) ==
    CASE up.kind = "request_error" -> "ConnectionError"
      [] up.kind = "http_error" -> "HTTPError"
      [] up.kind = "bad_json" -> "JSONDecodeError"
      [] OTHER -> "-"

\* ConnectionError and HTTPError derive from requests.RequestException;
\* JSONDecodeError derives from ValueError.
RequestOrValueErrors == {"ConnectionError", "HTTPError", "JSONDecodeError"}

\* result.get(key, default) on the parsed body: AttributeError when the body is
\* not a mapping, the default when the key is missing, else the stored value.
dict_get(body, key, default) ==
    IF body.type # "object" THEN Propagate("AttributeError", 1)
    ELSE IF body.key # key THEN Return(default, 1)
    ELSE Return(body.val, 1)

-----------------------------------------------------------------------------
(* model_utils.py *)

env_url_name(model) ==
    IF model = "openai" THEN "OPENAI_API_URL"
    ELSE IF model = "huggingface" THEN "HUGGINGFACE_API_URL"
    ELSE "MODEL_API_URL"

env_key_name(model) ==
    IF model = "openai" THEN "OPENAI_API_KEY"
    ELSE IF model = "huggingface" THEN "HUGGINGFACE_API_KEY"
    ELSE "MODEL_API_KEY"

\* Lines 46-61: the request and the extraction of "data", inside try/except
\* Exception.
model_utils_request(up) ==
    IF http_exception(up) # "-" THEN Return(HoldDecision, 1)
    ELSE LET got == dict_get(up.body, "data", HoldDecision)
         IN  IF got.outcome = "raise" THEN Return(HoldDecision, 1) ELSE got

\* The configuration check written with `and` in place of `or`.
analyze_text_with_model_and(e, model, model_api_url, model_api_key, up) ==
    LET url == IF model_api_url = PyNone THEN getenv(e, env_url_name(model))
                                         ELSE model_api_url
        key == IF model_api_key = PyNone THEN getenv(e, env_key_name(model))
                                         ELSE model_api_key
    IN  IF ~Truthy(url) /\ ~Truthy(key) THEN Return(HoldDecision, 0)
        ELSE model_utils_request(up)

analyze_text_with_model(e, model, model_api_url, model_api_key, up) ==
    LET url == IF model_api_url = PyNone THEN getenv(e, env_url_name(model))
                                         ELSE model_api_url
        key == IF model_api_key = PyNone THEN getenv(e, env_key_name(model))
                                         ELSE model_api_key
    IN  IF ~Truthy(url) \/ ~Truthy(key) THEN Return(HoldDecision, 0)
        ELSE model_utils_request(up)

-----------------------------------------------------------------------------
(* The decision adapters of the two scripts *)

\* ai_trading_bot.py: no exception is handled.
analyze_with_model(e, up) ==
    LET model_url == getenv(e, "MODEL_API_URL")
        model_key == getenv(e, "MODEL_API_KEY")
    IN  IF ~Truthy(model_url) \/ ~Truthy(model_key) THEN Return(HoldLabel, 0)
        ELSE IF http_exception(up) # "-" THEN Propagate(http_exception(up), 1)
        ELSE dict_get(up.body, "action", HoldLabel)

\* ai_trading_bot_enhanced.py: requests.RequestException and ValueError are
\* handled, anything else propagates.
enhanced_analyze_with_model(e, up) ==
    LET model_url == getenv(e, "MODEL_API_URL")
        model_key == getenv(e, "MODEL_API_KEY")
    IN  IF ~Truthy(model_url) \/ ~Truthy(model_key) THEN Return(HoldLabel, 0)
        ELSE IF http_exception(up) # "-"
        THEN IF http_exception(up) \in RequestOrValueErrors
             THEN Return(HoldLabel, 1)
             ELSE Propagate(http_exception(up), 1)
        ELSE dict_get(up.body, "signal", HoldLabel)

-----------------------------------------------------------------------------
(* telegram_utils.py *)

\* send_telegram_message(message) with no token or chat id argument: what it
\* logs, or the exception that leaves it. Only requests' own exceptions are
\* handled inside.
send_telegram_message(e, post) ==
    LET token == getenv(e, "TELEGRAM_BOT_TOKEN")
        chat == getenv(e, "TELEGRAM_CHAT_ID")
    IN  IF ~Truthy(token) \/ ~Truthy(chat)
        THEN [outcome |-> "return", logged |-> "warning: telegram not configured", exc |-> "-"]
        ELSE IF post = "ok"
        THEN [outcome |-> "return", logged |-> "info: message sent", exc |-> "-"]
        ELSE IF post \in {"ConnectionError", "HTTPError"}
        THEN [outcome |-> "return", logged |-> "error: failed to send", exc |-> "-"]
        ELSE [outcome |-> "raise", logged |-> "-", exc |-> post]

-----------------------------------------------------------------------------
(* ai_trading_bot.py: main *)

\* config.py: TAKE_PROFIT_PCT = 0.02 and STOP_LOSS_PCT = 0.01
TAKE_PROFIT_PCT == Rat(2, 100)
STOP_LOSS_PCT == Rat(1, 100)

\* Python compares the action with "buy" and "sell"; a value that is not a
\* string equals neither.
label_of(v) == IF v.type = "string" THEN v.label ELSE "<not a string>"

\* A call of calculate_trade_levels(price, action, tp_pct, sl_pct) with the
\* positional arguments args: a TypeError unless all four are given.
call_calculate_trade_levels(args) ==
    IF Len(args) # 4 THEN "TypeError" ELSE "-"

-----------------------------------------------------------------------------
(* ai_trading_bot_enhanced.py: the collaborators of main *)

\* Line 32: the dict comprehension over symbols, as an insertion-ordered list
\* of entries; a repeated key keeps its first position and takes the later
\* value, an instrument missing from the response gets 0.0.
RECURSIVE dict_comprehension(_, _, _)
dict_comprehension(syms, data, acc) ==
    IF syms = <<>> THEN acc
    ELSE LET sym == Head(syms)
             entry == [symbol |-> sym,
                       price |-> IF sym \in DOMAIN data THEN data[sym] ELSE 0]
         IN  IF \E k \in 1..Len(acc) : acc[k].symbol = sym
             THEN dict_comprehension(Tail(syms), data,
                      [k \in 1..Len(acc) |->
                          IF acc[k].symbol = sym THEN entry ELSE acc[k]])
             ELSE dict_comprehension(Tail(syms), data, Append(acc, entry))

enhanced_fetch_market_data(syms, data) == dict_comprehension(syms, data, <<>>)

\* The Optional[List[float]] returned by fetch_historical_prices, or the
\* exception that leaves it.
HistNone == [outcome |-> "return", is_none |-> TRUE, series |-> <<>>, exc |-> "-"]
HistList(ps) == [outcome |-> "return", is_none |-> FALSE, series |-> ps, exc |-> "-"]
HistRaise(e) == [outcome |-> "raise", is_none |-> TRUE, series |-> <<>>, exc |-> e]

\* Lines 35-46: requests.RequestException and ValueError are handled; a body
\* that is not a mapping fails in data.get, a null "prices" in the iteration,
\* a point that is not a [time, price] pair in point[1].
fetch_historical_prices(resp) ==
    CASE resp.kind \in {"request_error", "http_error", "bad_json"} -> HistNone
      [] resp.kind = "not_mapping" -> HistRaise("AttributeError")
      [] resp.kind = "null_prices" -> HistRaise("TypeError")
      [] resp.kind = "bad_point" -> HistRaise("IndexError")
      [] resp.kind = "no_prices" -> HistList(<<>>)
      [] OTHER -> HistList(resp.series)

\* Line 145: calculate_moving_average(hist_prices) if hist_prices else None
main_moving_avg(hist) ==
    IF hist.is_none \/ hist.series = <<>> THEN None
    ELSE enhanced_calculate_moving_average(hist.series)

\* Lines 153 and 160: the average is shown only when it is truthy; None and
\* 0.0 are reported as "N/A".
reported_moving_avg(ma) ==
    IF ma.kind = "number" /\ ~IsZero(ma.val) THEN ma ELSE None

-----------------------------------------------------------------------------
(* IndicatorEngine: the indicator functions applied to a price series *)

Prices == 0..MaxPrice
PriceSeries == UNION {[1..n -> Prices] : n \in 0..MaxLen}

IdleIndicator == [fn |-> "idle", result |-> None]
IdleLevels == [kind |-> "idle", tp |-> <<0, 1>>, sl |-> <<0, 1>>]
Levels(pair) == [kind |-> "levels", tp |-> pair[1], sl |-> pair[2]]

IndicatorsIdle ==
    /\ prices = <<>>
    /\ window = 1
    /\ period = 1
    /\ indicator = IdleIndicator

LevelsIdle ==
    /\ action = "hold"
    /\ price = 1
    /\ tp_pct = <<0, 100>>
    /\ sl_pct = <<0, 100>>
    /\ levels = [bot |-> IdleLevels, enhanced |-> IdleLevels]

NoCall == [adapter |-> "idle", model |-> "default",
           model_api_url |-> PyNone, model_api_key |-> PyNone]
NoUpstream == [kind |-> "none",
               body |-> [type |-> "object", key |-> "-", val |-> JsonNull]]

AdaptersIdle ==
    /\ env = [n \in {} |-> ""]
    /\ call = NoCall
    /\ upstream = NoUpstream
    /\ decision = NoDecision

BotIdle ==
    /\ pc = "idle"
    /\ symbols = <<>>
    /\ market_data = [n \in {} |-> 0]
    /\ model_action = JsonNull
    /\ idx = 0
    /\ log = <<>>
    /\ exc = "-"

EnhancedIdle == emitted = <<>>

InitIndicators ==
    /\ prices \in PriceSeries
    /\ window \in 1..MaxWindow
    /\ period \in 1..MaxPeriod
    /\ indicator = IdleIndicator
    /\ LevelsIdle
    /\ AdaptersIdle
    /\ BotIdle
    /\ EnhancedIdle

CallMovingAverage ==
    /\ indicator' = [fn |-> "calculate_moving_average",
                     result |-> calculate_moving_average(prices, window)]
    /\ UNCHANGED <<prices, window, period, lvlVars, adpVars, botVars, enhVars>>

CallRsi ==
    /\ indicator' = [fn |-> "calculate_rsi",
                     result |-> calculate_rsi(prices, period)]
    /\ UNCHANGED <<prices, window, period, lvlVars, adpVars, botVars, enhVars>>

CallEnhancedMovingAverage ==
    /\ indicator' = [fn |-> "enhanced_calculate_moving_average",
                     result |-> enhanced_calculate_moving_average(prices)]
    /\ UNCHANGED <<prices, window, period, lvlVars, adpVars, botVars, enhVars>>

NextIndicators ==
    \/ CallMovingAverage
    \/ CallRsi
    \/ CallEnhancedMovingAverage

SpecIndicators == InitIndicators /\ [][NextIndicators]_vars

-----------------------------------------------------------------------------
(* LevelCalculator: both implementations applied to the same inputs *)

Labels == {"buy", "sell", "hold"}
UpstreamLabels == Labels \cup {"strong_buy"}
Pcts == {Rat(k, 100) : k \in 0..MaxPct}

InitLevels ==
    /\ action \in UpstreamLabels
    /\ price \in (0 - 1)..MaxLevelPrice
    /\ tp_pct \in Pcts
    /\ sl_pct \in Pcts
    /\ levels = [bot |-> IdleLevels, enhanced |-> IdleLevels]
    /\ IndicatorsIdle
    /\ AdaptersIdle
    /\ BotIdle
    /\ EnhancedIdle

CallTradeLevels ==
    /\ levels' = [levels EXCEPT !.bot =
                    Levels(calculate_trade_levels(FromInt(price), action, tp_pct, sl_pct))]
    /\ UNCHANGED <<action, price, tp_pct, sl_pct, indVars, adpVars, botVars, enhVars>>

CallEnhancedTradeLevels ==
    /\ levels' = [levels EXCEPT !.enhanced =
                    Levels(enhanced_calculate_trade_levels(action, FromInt(price),
                                                           tp_pct, sl_pct))]
    /\ UNCHANGED <<action, price, tp_pct, sl_pct, indVars, adpVars, botVars, enhVars>>

NextLevels ==
    \/ CallTradeLevels
    \/ CallEnhancedTradeLevels

SpecLevels == InitLevels /\ [][NextLevels]_vars

-----------------------------------------------------------------------------
(* DecisionAdapter: the three adapters called in an environment, against an
   endpoint that fails or answers with some JSON body *)

EnvNames == {"MODEL_API_URL", "MODEL_API_KEY", "OPENAI_API_URL", "OPENAI_API_KEY",
             "HUGGINGFACE_API_URL", "HUGGINGFACE_API_KEY"}
\* MODEL_API_* are read by all three adapters and may be unset, empty or set;
\* the model-specific variables are unset or set.
EnvValues(n) == IF n \in {"MODEL_API_URL", "MODEL_API_KEY"}
                THEN {"<unset>", "", "set"}
                ELSE {"<unset>", "set"}
Environments == {e \in [EnvNames -> {"<unset>", "", "set"}] :
                   \A n \in EnvNames : e[n] \in EnvValues(n)}
ModelNames == {"default", "openai", "huggingface", "llama"}
ArgValues == {PyNone, "", "arg"}

\* Scores in hundredths: below 0, inside [0, 1] and above 1.
Scores == {0 - 50, 50, 170}
FieldValues ==
    {JsonNull}
    \cup {JsonString(l) : l \in UpstreamLabels}
    \cup {JsonDecision(l, FALSE, 0) : l \in {Absent, "buy", "strong_buy"}}
    \cup {JsonDecision(l, TRUE, sc) : l \in {Absent, "buy"}, sc \in Scores}
Bodies ==
    {[type |-> "list", key |-> "-", val |-> JsonNull],
     [type |-> "object", key |-> "-", val |-> JsonNull]}
    \cup {[type |-> "object", key |-> k, val |-> v] :
            k \in {"data", "action", "signal"}, v \in FieldValues}
Upstreams ==
    {[kind |-> k, body |-> [type |-> "object", key |-> "-", val |-> JsonNull]] :
        k \in {"request_error", "http_error", "bad_json"}}
    \cup {[kind |-> "json", body |-> b] : b \in Bodies}

InitAdapters ==
    /\ env \in Environments
    /\ call = NoCall
    /\ upstream = NoUpstream
    /\ decision = NoDecision
    /\ IndicatorsIdle
    /\ LevelsIdle
    /\ BotIdle
    /\ EnhancedIdle

\* The endpoint's behaviour is recorded only when a request reached it. Each
\* behaviour is one adapter call made in a fresh process environment.
Seen(d, up) == IF d.requests > 0 THEN up ELSE NoUpstream

CallAnalyzeTextWithModel ==
    \E model \in ModelNames, url \in ArgValues, key \in ArgValues, up \in Upstreams :
        LET d == analyze_text_with_model(env, model, url, key, up)
        IN  /\ call = NoCall
            /\ call' = [adapter |-> "analyze_text_with_model", model |-> model,
                        model_api_url |-> url, model_api_key |-> key]
            /\ decision' = d
            /\ upstream' = Seen(d, up)
            /\ UNCHANGED <<env, indVars, lvlVars, botVars, enhVars>>

CallAnalyzeWithModel ==
    \E up \in Upstreams :
        LET d == analyze_with_model(env, up)
        IN  /\ call = NoCall
            /\ call' = [NoCall EXCEPT !.adapter = "analyze_with_model"]
            /\ decision' = d
            /\ upstream' = Seen(d, up)
            /\ UNCHANGED <<env, indVars, lvlVars, botVars, enhVars>>

CallEnhancedAnalyzeWithModel ==
    \E up \in Upstreams :
        LET d == enhanced_analyze_with_model(env, up)
        IN  /\ call = NoCall
            /\ call' = [NoCall EXCEPT !.adapter = "enhanced_analyze_with_model"]
            /\ decision' = d
            /\ upstream' = Seen(d, up)
            /\ UNCHANGED <<env, indVars, lvlVars, botVars, enhVars>>

NextAdapters ==
    \/ CallAnalyzeTextWithModel
    \/ CallAnalyzeWithModel
    \/ CallEnhancedAnalyzeWithModel

SpecAdapters == InitAdapters /\ [][NextAdapters]_vars

-----------------------------------------------------------------------------
(* ai_trading_bot.main, statement by statement. Line 100 of the file (the
   import of send_telegram_message) is indented one level too deep, so the
   file as it stands does not compile; main is modelled with that line read
   at the indentation of its neighbours. *)

SymbolNames == {"bitcoin", "ethereum"}
SymbolLists == UNION {[1..n -> SymbolNames] : n \in 0..MaxSymbols}
MarketDatas == UNION {[S -> 1..MaxPrice] : S \in SUBSET SymbolNames}
BotEnvNames == {"MODEL_API_URL", "MODEL_API_KEY", "TELEGRAM_BOT_TOKEN",
                "TELEGRAM_CHAT_ID", "NEWS_API_KEY"}

Event(e, sym) == [event |-> e, symbol |-> sym]

InitBot ==
    /\ env \in [BotEnvNames -> {"<unset>", "set"}]
    /\ call = NoCall
    /\ upstream = NoUpstream
    /\ decision = NoDecision
    /\ pc = "fetch_market_data"
    /\ symbols \in SymbolLists
    /\ market_data = [n \in {} |-> 0]
    /\ model_action = JsonNull
    /\ idx = 0
    /\ log = <<>>
    /\ exc = "-"
    /\ IndicatorsIdle
    /\ LevelsIdle
    /\ EnhancedIdle

Abort(e) ==
    /\ pc' = "aborted"
    /\ exc' = e

\* Line 103: fetch_market_data raises on a failed request, else returns the
\* parsed mapping.
FetchMarketData ==
    /\ pc = "fetch_market_data"
    /\ \/ /\ \E e \in {"ConnectionError", "HTTPError"} : Abort(e)
          /\ UNCHANGED market_data
       \/ /\ market_data' \in MarketDatas
          /\ pc' = "fetch_news"
          /\ UNCHANGED exc
    /\ UNCHANGED <<env, call, upstream, decision, symbols, model_action, idx, log,
                   indVars, lvlVars, enhVars>>

\* Line 106: fetch_news returns [] without NEWS_API_KEY, else raises on a
\* failed request.
FetchNews ==
    /\ pc = "fetch_news"
    /\ \/ /\ Truthy(getenv(env, "NEWS_API_KEY"))
          /\ \E e \in {"ConnectionError", "HTTPError"} : Abort(e)
       \/ /\ pc' = "analyze_with_model"
          /\ UNCHANGED exc
    /\ UNCHANGED <<env, call, upstream, decision, symbols, market_data, model_action,
                   idx, log, indVars, lvlVars, enhVars>>

\* Lines 110-111: the model's action, or the exception analyze_with_model lets
\* through.
Analyze ==
    /\ pc = "analyze_with_model"
    /\ \E up \in Upstreams :
         LET d == analyze_with_model(env, up)
         IN  /\ decision' = d
             /\ upstream' = Seen(d, up)
             /\ call' = [NoCall EXCEPT !.adapter = "analyze_with_model"]
             /\ IF d.outcome = "raise"
                THEN Abort(d.exc) /\ UNCHANGED <<model_action, idx>>
                ELSE /\ model_action' = d.value
                     /\ pc' = "levels"
                     /\ idx' = 1
                     /\ UNCHANGED exc
    /\ UNCHANGED <<env, symbols, market_data, log, indVars, lvlVars, enhVars>>

\* Lines 113-122: one iteration of the level loop.
ComputeLevels ==
    /\ pc = "levels"
    /\ idx <= Len(symbols)
    /\ IF symbols[idx] \notin DOMAIN market_data
       THEN Abort("KeyError") /\ UNCHANGED <<idx, log>>
       ELSE LET args == <<FromInt(market_data[symbols[idx]]), label_of(model_action),
                          TAKE_PROFIT_PCT, STOP_LOSS_PCT>>
            IN  IF call_calculate_trade_levels(args) # "-"
                THEN Abort(call_calculate_trade_levels(args)) /\ UNCHANGED <<idx, log>>
                ELSE /\ log' = Append(log, Event("levels", symbols[idx]))
                     /\ idx' = idx + 1
                     /\ UNCHANGED <<pc, exc>>
    /\ UNCHANGED <<env, call, upstream, decision, symbols, market_data, model_action,
                   indVars, lvlVars, enhVars>>

\* Line 125: print("Action:", action)
PrintAction ==
    /\ pc = "levels"
    /\ idx > Len(symbols)
    /\ log' = Append(log, Event("print action", "-"))
    /\ pc' = "compose"
    /\ UNCHANGED <<env, call, upstream, decision, symbols, market_data, model_action,
                   idx, exc, indVars, lvlVars, enhVars>>

\* Line 127: action.upper() exists only on a string.
ComposeHeader ==
    /\ pc = "compose"
    /\ IF model_action.type # "string"
       THEN Abort("AttributeError") /\ UNCHANGED idx
       ELSE pc' = "compose_lines" /\ idx' = 1 /\ UNCHANGED exc
    /\ UNCHANGED <<env, call, upstream, decision, symbols, market_data, model_action,
                   log, indVars, lvlVars, enhVars>>

\* Lines 128-131: one iteration of the message loop; the call on line 130
\* passes (price, args.tp, args.sl).
ComposeLine ==
    /\ pc = "compose_lines"
    /\ idx <= Len(symbols)
    /\ LET args == <<FromInt(market_data[symbols[idx]]), TAKE_PROFIT_PCT, STOP_LOSS_PCT>>
       IN  IF call_calculate_trade_levels(args) # "-"
           THEN Abort(call_calculate_trade_levels(args)) /\ UNCHANGED idx
           ELSE idx' = idx + 1 /\ UNCHANGED <<pc, exc>>
    /\ UNCHANGED <<env, call, upstream, decision, symbols, market_data, model_action,
                   log, indVars, lvlVars, enhVars>>

\* Lines 132-136: the message is sent inside try/except Exception.
SendNotification ==
    /\ pc = "compose_lines"
    /\ idx > Len(symbols)
    /\ \E post \in {"ok", "ConnectionError", "HTTPError", "UnicodeError"} :
         LET sent == send_telegram_message(env, post)
         IN  log' = Append(log, Event(IF sent.outcome = "raise"
                                      THEN "error: notification failed"
                                      ELSE sent.logged, "-"))
    /\ pc' = "done"
    /\ UNCHANGED <<env, call, upstream, decision, symbols, market_data, model_action,
                   idx, exc, indVars, lvlVars, enhVars>>

NextBot ==
    \/ FetchMarketData
    \/ FetchNews
    \/ Analyze
    \/ ComputeLevels
    \/ PrintAction
    \/ ComposeHeader
    \/ ComposeLine
    \/ SendNotification

SpecBot == InitBot /\ [][NextBot]_vars

-----------------------------------------------------------------------------
(* ai_trading_bot_enhanced.main, statement by statement *)

EnhEnvNames == {"MODEL_API_URL", "MODEL_API_KEY", "NEWS_API_KEY"}
HistSeries == UNION {[1..n -> Prices] : n \in 1..MaxHist}
HistResponses ==
    {[kind |-> k, series |-> <<>>] :
        k \in {"request_error", "http_error", "bad_json", "not_mapping",
               "null_prices", "bad_point", "no_prices"}}
    \cup {[kind |-> "prices", series |-> ps] : ps \in HistSeries}

InitEnhanced ==
    /\ env \in [EnhEnvNames -> {"<unset>", "set"}]
    /\ call = NoCall
    /\ upstream = NoUpstream
    /\ decision = NoDecision
    /\ pc = "fetch_market_data"
    /\ symbols \in SymbolLists
    /\ market_data = <<>>
    /\ model_action = JsonNull
    /\ idx = 0
    /\ log = <<>>
    /\ exc = "-"
    /\ emitted = <<>>
    /\ IndicatorsIdle
    /\ LevelsIdle

\* Lines 128-132: any exception of fetch_market_data is logged and main
\* returns; otherwise the price of every requested symbol is taken from the
\* response.
EnhFetchMarketData ==
    /\ pc = "fetch_market_data"
    /\ \/ /\ pc' = "done"
          /\ log' = Append(log, Event("error: market data", "-"))
          /\ UNCHANGED market_data
       \/ /\ \E data \in MarketDatas :
                market_data' = enhanced_fetch_market_data(symbols, data)
          /\ pc' = "fetch_news"
          /\ UNCHANGED log
    /\ UNCHANGED <<env, call, upstream, decision, symbols, model_action, idx, exc,
                   emitted, indVars, lvlVars>>

\* Line 134: fetch_news returns [] without NEWS_API_KEY; with it, a failed
\* request is logged and a body that is not a list of mappings raises.
EnhFetchNews ==
    /\ pc = "fetch_news"
    /\ \/ /\ pc' = "analyze_with_model"
          /\ UNCHANGED <<exc, log>>
       \/ /\ Truthy(getenv(env, "NEWS_API_KEY"))
          /\ pc' = "analyze_with_model"
          /\ log' = Append(log, Event("error: news", "-"))
          /\ UNCHANGED exc
       \/ /\ Truthy(getenv(env, "NEWS_API_KEY"))
          /\ Abort("TypeError")
          /\ UNCHANGED log
    /\ UNCHANGED <<env, call, upstream, decision, symbols, market_data, model_action,
                   idx, emitted, indVars, lvlVars>>

\* Line 137: the signal, or the exception analyze_with_model lets through.
EnhAnalyze ==
    /\ pc = "analyze_with_model"
    /\ \E up \in Upstreams :
         LET d == enhanced_analyze_with_model(env, up)
         IN  IF d.outcome = "raise"
             THEN Abort(d.exc) /\ UNCHANGED <<model_action, idx>>
             ELSE /\ model_action' = d.value
                  /\ pc' = "loop"
                  /\ idx' = 1
                  /\ UNCHANGED exc
    /\ UNCHANGED <<env, call, upstream, decision, symbols, market_data, log, emitted,
                   indVars, lvlVars>>

\* Lines 143-164: one iteration of the loop over market_data.items().
EnhProcessSymbol ==
    /\ pc = "loop"
    /\ idx <= Len(market_data)
    /\ \E resp \in HistResponses :
         LET item == market_data[idx]
             hist_prices == fetch_historical_prices(resp)
             moving_avg == main_moving_avg(hist_prices)
             lv == enhanced_calculate_trade_levels(label_of(model_action),
                       FromInt(item.price), TAKE_PROFIT_PCT, STOP_LOSS_PCT)
         IN  IF hist_prices.outcome = "raise"
             THEN Abort(hist_prices.exc) /\ UNCHANGED <<idx, log, emitted>>
             ELSE /\ emitted' = Append(emitted,
                        [symbol |-> item.symbol, price |-> item.price,
                         fetch |-> resp.kind,
                         moving_avg |-> reported_moving_avg(moving_avg),
                         tp |-> lv[1], sl |-> lv[2]])
                  /\ log' = IF hist_prices.is_none
                            THEN Append(log, Event("error: historical prices",
                                                   item.symbol))
                            ELSE log
                  /\ idx' = idx + 1
                  /\ UNCHANGED <<pc, exc>>
    /\ UNCHANGED <<env, call, upstream, decision, symbols, market_data, model_action,
                   indVars, lvlVars>>

\* Line 164: the loop is exhausted and main returns.
EnhReturn ==
    /\ pc = "loop"
    /\ idx > Len(market_data)
    /\ pc' = "done"
    /\ UNCHANGED <<env, call, upstream, decision, symbols, market_data, model_action,
                   idx, log, exc, emitted, indVars, lvlVars>>

NextEnhanced ==
    \/ EnhFetchMarketData
    \/ EnhFetchNews
    \/ EnhAnalyze
    \/ EnhProcessSymbol
    \/ EnhReturn

SpecEnhanced == InitEnhanced /\ [][NextEnhanced]_vars

-----------------------------------------------------------------------------
(* Claims about the IndicatorEngine (checked under SpecIndicators) *)

Min(a, b) == IF a < b THEN a ELSE b

\* The sum of f[k] over the finite index set S.
RECURSIVE SumOver(_, _)
SumOver(f, S) ==
    IF S = {} THEN 0
    ELSE LET k == CHOOSE x \in S : TRUE IN f[k] + SumOver(f, S \ {k})

\* C1: for a non-empty series and a positive window, calculate_moving_average
\* returns the arithmetic mean of exactly the last min(window, len(prices))
\* elements.
C1_MovingAverageIsMeanOfLastElements ==
    (indicator.fn = "calculate_moving_average" /\ prices # <<>>) =>
        LET n == Min(window, Len(prices))
            last == (Len(prices) - n + 1)..Len(prices)
        IN  /\ indicator.result.kind = "number"
            /\ indicator.result.val[1] * n
                 = SumOver(prices, last) * indicator.result.val[2]

\* C1 witness: a series shorter than the window, with unequal samples, averaged.
C1_Witness ==
    /\ indicator.fn = "calculate_moving_average"
    /\ Len(prices) >= 2
    /\ Len(prices) < window
    /\ prices[1] # prices[2]

\* The most recent `period` consecutive deltas, oldest first (1-based series).
Deltas == [k \in 1..period |->
             prices[Len(prices) - period + k] - prices[Len(prices) - period + k - 1]]
Gains == SumOver([k \in 1..period |-> IF Deltas[k] > 0 THEN Deltas[k] ELSE 0], 1..period)
Losses == SumOver([k \in 1..period |-> IF Deltas[k] > 0 THEN 0 ELSE 0 - Deltas[k]],
                  1..period)

\* 100 - 100/(1 + rs) with rs = average_gain / average_loss, as a rational.
ExpectedRsi ==
    LET average_gain == <<Gains, period>>
        average_loss == IF Losses = 0 THEN <<1, 1000>> ELSE <<Losses, period>>
        \* rs = (g1/g2) / (l1/l2), so 1 + rs = (g1*l2 + g2*l1) / (g2*l1)
        one_plus_rs == <<average_gain[1] * average_loss[2]
                           + average_gain[2] * average_loss[1],
                         average_gain[2] * average_loss[1]>>
    IN  <<100 * one_plus_rs[1] - 100 * one_plus_rs[2], one_plus_rs[1]>>

\* C3: calculate_rsi returns None when len(prices) < period + 1, and otherwise
\* 100 - 100/(1 + rs), rs = average_gain / average_loss, over the gains and
\* losses of the most recent `period` deltas, an average loss of zero being
\* replaced by 0.001.
C3_RsiFollowsDefinition ==
    indicator.fn = "calculate_rsi" =>
        IF Len(prices) < period + 1
        THEN indicator.result = None
        ELSE /\ indicator.result.kind = "number"
             /\ REq(indicator.result.val, ExpectedRsi)

\* C3 witness: an RSI computed over a window with both a gain and a loss, the
\* series longer than the window needs.
C3_Witness ==
    /\ indicator.fn = "calculate_rsi"
    /\ Len(prices) > period + 1
    /\ indicator.result.kind = "number"
    /\ Gains > 0
    /\ Losses > 0

\* C4 as stated: every defined RSI satisfies 0 < rsi < 100 strictly.
C4_RsiStrictlyInside ==
    (indicator.fn = "calculate_rsi" /\ indicator.result.kind = "number") =>
        /\ RLt(FromInt(0), indicator.result.val)
        /\ RLt(indicator.result.val, FromInt(100))

\* C4 as amended: every defined RSI satisfies 0 <= rsi < 100, and it is exactly
\* 0 when, and only when, none of the most recent `period` deltas is positive.
C4_RsiInHalfOpenRange ==
    (indicator.fn = "calculate_rsi" /\ Len(prices) >= period + 1) =>
        /\ indicator.result.kind = "number"
        /\ RLe(FromInt(0), indicator.result.val)
        /\ RLt(indicator.result.val, FromInt(100))
        /\ (IsZero(indicator.result.val) <=> Gains = 0)

\* C4 witness: a defined RSI that is exactly 0, over a falling series.
C4_Witness ==
    /\ indicator.fn = "calculate_rsi"
    /\ indicator.result.kind = "number"
    /\ IsZero(indicator.result.val)
    /\ Losses > 0

\* C8: a moving average over an empty series yields None, for every window, in
\* analysis_utils and in ai_trading_bot_enhanced alike.
C8_EmptySeriesHasNoAverage ==
    (/\ indicator.fn \in {"calculate_moving_average",
                          "enhanced_calculate_moving_average"}
     /\ prices = <<>>) => indicator.result = None

-----------------------------------------------------------------------------
(* Claims about the LevelCalculator (checked under SpecLevels) *)

\* The pair the claim gives for a label: price*(1 +- pct), as rationals.
ExpectedLevels ==
    LET up(pct) == <<price * (pct[2] + pct[1]), pct[2]>>
        down(pct) == <<price * (pct[2] - pct[1]), pct[2]>>
    IN  CASE action = "buy" -> <<up(tp_pct), down(sl_pct)>>
          [] action = "sell" -> <<down(tp_pct), up(sl_pct)>>
          [] OTHER -> <<FromInt(price), FromInt(price)>>

SameLevels(l, pair) == REq(l.tp, pair[1]) /\ REq(l.sl, pair[2])

\* C2: for price > 0 and fractions >= 0, both implementations return
\* (price*(1+tp), price*(1-sl)) for buy, (price*(1-tp), price*(1+sl)) for sell
\* and (price, price) for any other label, and so the same pair.
C2_TradeLevelsFollowTable ==
    price > 0 =>
        /\ levels.bot.kind = "levels" => SameLevels(levels.bot, ExpectedLevels)
        /\ levels.enhanced.kind = "levels" => SameLevels(levels.enhanced, ExpectedLevels)
        /\ (levels.bot.kind = "levels" /\ levels.enhanced.kind = "levels") =>
               SameLevels(levels.bot, <<levels.enhanced.tp, levels.enhanced.sl>>)

\* C2 witness: both implementations called for a sell at a positive price with
\* different non-zero fractions.
C2_Witness ==
    /\ price > 0
    /\ action = "sell"
    /\ tp_pct[1] > 0
    /\ sl_pct[1] > 0
    /\ tp_pct # sl_pct
    /\ levels.bot.kind = "levels"
    /\ levels.enhanced.kind = "levels"

\* C9: a level calculation at a price <= 0 is rejected and returns no pair.
C9_NonPositivePriceRejected ==
    price <= 0 =>
        /\ levels.bot.kind # "levels"
        /\ levels.enhanced.kind # "levels"

-----------------------------------------------------------------------------
(* Claims about the DecisionAdapter (checked under SpecAdapters) *)

\* The environment variables the selected model is configured through.
SelectedUrlVar ==
    CASE call.model = "openai" -> "OPENAI_API_URL"
      [] call.model = "huggingface" -> "HUGGINGFACE_API_URL"
      [] OTHER -> "MODEL_API_URL"
SelectedKeyVar ==
    CASE call.model = "openai" -> "OPENAI_API_KEY"
      [] call.model = "huggingface" -> "HUGGINGFACE_API_KEY"
      [] OTHER -> "MODEL_API_KEY"

\* Neither passed as an argument nor present in the environment.
UrlNotConfigured ==
    call.model_api_url \in {PyNone, ""} /\ env[SelectedUrlVar] \in {"<unset>", ""}
KeyNotConfigured ==
    call.model_api_key \in {PyNone, ""} /\ env[SelectedKeyVar] \in {"<unset>", ""}

\* C5: when the URL or the key of the selected model is not configured,
\* analyze_text_with_model returns exactly {label: hold, score: 0.0}, raises
\* nothing and makes no request, for every model name.
C5_UnconfiguredReturnsHold ==
    (/\ call.adapter = "analyze_text_with_model"
     /\ (UrlNotConfigured \/ KeyNotConfigured)) =>
        /\ decision.outcome = "return"
        /\ decision.value = HoldDecision
        /\ decision.requests = 0

\* C5 witness: model openai with only its URL configured, while the default
\* model's key is set.
C5_Witness ==
    /\ call.adapter = "analyze_text_with_model"
    /\ call.model = "openai"
    /\ call.model_api_url = PyNone
    /\ env["OPENAI_API_URL"] = "set"
    /\ env["MODEL_API_KEY"] = "set"
    /\ KeyNotConfigured
    /\ decision.outcome = "return"

\* The field an adapter reads its decision from, and its default decision.
DecisionField ==
    CASE call.adapter = "analyze_text_with_model" -> "data"
      [] call.adapter = "analyze_with_model" -> "action"
      [] OTHER -> "signal"
DefaultDecision ==
    IF call.adapter = "analyze_text_with_model" THEN HoldDecision ELSE HoldLabel

\* The request failed, or the response is not a mapping, has no decision
\* field, or has a decision field that is null or lacks a label.
MalformedUpstream ==
    \/ upstream.kind \in {"request_error", "http_error", "bad_json"}
    \/ /\ upstream.kind = "json"
       /\ \/ upstream.body.type # "object"
          \/ upstream.body.key # DecisionField
          \/ upstream.body.val.type = "null"
          \/ upstream.body.val.label = Absent

\* C6: on a failed request or a missing or malformed response every adapter
\* returns its default hold decision and propagates no error.
C6_MalformedUpstreamYieldsHold ==
    (call.adapter # "idle" /\ decision.requests > 0 /\ MalformedUpstream) =>
        /\ decision.outcome = "return"
        /\ decision.value = DefaultDecision

\* C7: every decision an adapter returns has a label in {buy, sell, hold} and,
\* where it carries a confidence, one in [0, 1]; model_utils always carries one.
C7_DecisionsAreCanonical ==
    (call.adapter # "idle" /\ decision.outcome = "return") =>
        /\ decision.value.label \in Labels
        /\ decision.value.has_score => decision.value.score \in 0..100
        /\ call.adapter = "analyze_text_with_model" => decision.value.has_score

-----------------------------------------------------------------------------
(* Claims about ai_trading_bot.main (checked under SpecBot) *)

ActionPrinted == \E k \in 1..Len(log) : log[k].event = "print action"

\* C10: once the levels of every symbol are computed and the action is
\* printed, the notification step never aborts main: no exception ends main
\* after the print.
C10_NotificationNeverAborts ==
    ActionPrinted => pc # "aborted"

-----------------------------------------------------------------------------
(* Claims about ai_trading_bot_enhanced.main (checked under SpecEnhanced) *)

\* The requested instruments in input-list order, each once.
RequestedInOrder ==
    LET firsts == {k \in 1..Len(symbols) : \A j \in 1..(k - 1) : symbols[j] # symbols[k]}
        rank(k) == Cardinality({j \in firsts : j <= k})
    IN  [n \in 1..Cardinality(firsts) |->
            symbols[CHOOSE k \in firsts : rank(k) = n]]

HistFetchFailures == {"request_error", "http_error", "bad_json", "not_mapping",
                      "null_prices", "bad_point"}

\* C11: once the per-instrument loop has started, main ends normally whatever
\* the historical-price fetches did, having emitted for every requested
\* instrument, in input-list order, the levels computed from its current
\* price, with the moving average absent where the fetch failed.
C11_HistoryFailureIsIsolated ==
    (pc \in {"done", "aborted"} /\ idx >= 1) =>
        /\ pc = "done"
        /\ [k \in 1..Len(emitted) |-> emitted[k].symbol] = RequestedInOrder
        /\ \A k \in 1..Len(emitted) :
              /\ emitted[k].price = market_data[k].price
              /\ <<emitted[k].tp, emitted[k].sl>>
                    = enhanced_calculate_trade_levels(label_of(model_action),
                          FromInt(market_data[k].price), TAKE_PROFIT_PCT, STOP_LOSS_PCT)
              /\ emitted[k].fetch \in HistFetchFailures =>
                    emitted[k].moving_avg = None

====
